---- MODULE Spec2Model ----
(***************************************************************************)
(* A model of the random-number Lambda function (index.js) and of the      *)
(* workflow that deploys it (.github/workflows/deploy.yml).                *)
(*                                                                         *)
(* Strings are sequences of one-character strings, so that template        *)
(* formatting, JSON encoding and JSON decoding are computed character by   *)
(* character.  Math.random() is a choice of k in 0..RandRes-1, standing    *)
(* for the real number k/RandRes of [0, 1).                                *)
(***************************************************************************)
EXTENDS Integers, Sequences, FiniteSets

\* ------------------------------------------------------------- bounds
\* Number of invocations the runtime may have in flight at once.
NumInv == 2
\* Math.random() returns one of the RandRes numbers k/RandRes, k < RandRes.
RandRes == 128
\* Number of commits that may be pushed.
MaxCommits == 2

\* ---------------------------------------------------------- constants
\* index.js:4   const maxValue = 100;
maxValue == 100
\* index.js:7   statusCode: 200
StatusOK == 200

Invocations == 1..NumInv
Samples == 0..(RandRes - 1)
Commits == 1..MaxCommits

\* The events the runtime hands to the handler: a missing event, an empty
\* record, and a record with content.
Events == {"undefined", "{}", "{\"key\":\"value\"}"}
NoEvent == "none"
NoNumber == 0 - 1
NoPromise == [state |-> "none"]

VARIABLES
    pc,            \* pc[i]: "idle", "called" (handler about to run), "settled"
    event,         \* event[i]: the argument of invocation i
    sample,        \* sample[i]: the k of the Math.random() call of invocation i
    randomNumber,  \* randomNumber[i]: the handler's local of index.js:5
    promise,       \* promise[i]: the promise the async handler returned
    moduleScope,   \* the bindings of index.js's module scope
    pushed,        \* pushed[c]: the branch commit c was pushed to, or "none"
    run,           \* run[c]: the workflow run of commit c
    runners,       \* labels of the self-hosted runners registered
    lambdaCode     \* the commit whose archive the Lambda function runs

handlerVars == <<pc, event, sample, randomNumber, promise, moduleScope>>
deployVars == <<pushed, run, runners, lambdaCode>>
vars == <<pc, event, sample, randomNumber, promise, moduleScope,
          pushed, run, runners, lambdaCode>>

\* ------------------------------------------------- strings and numbers
DigitChars == <<"0", "1", "2", "3", "4", "5", "6", "7", "8", "9">>

\* Number.prototype.toString for an integer: the decimal digits, most
\* significant first, with a minus sign for a negative number.
RECURSIVE NumberToString(_)
NumberToString(n) ==
    IF n < 0 THEN <<"-">> \o NumberToString(0 - n)
    ELSE IF n < 10 THEN <<DigitChars[n + 1]>>
    ELSE NumberToString(n \div 10) \o <<DigitChars[(n % 10) + 1]>>

\* "Random number: "
MessagePrefix ==
    <<"R", "a", "n", "d", "o", "m", " ", "n", "u", "m", "b", "e", "r", ":", " ">>

\* `Random number: ${randomNumber}`
TemplateLiteral(n) == MessagePrefix \o NumberToString(n)

\* A body built without JSON.stringify: the message itself.
JSONstringifyOmitted(s) == s

\* JSON.stringify of a string: the characters between two quotes, a quote
\* or a backslash inside escaped by a backslash.
RECURSIVE EscapeJSON(_)
EscapeJSON(s) ==
    IF s = <<>> THEN <<>>
    ELSE (IF Head(s) \in {"\"", "\\"} THEN <<"\\", Head(s)>> ELSE <<Head(s)>>)
         \o EscapeJSON(Tail(s))

JSONstringify(s) == <<"\"">> \o EscapeJSON(s) \o <<"\"">>

\* ------------------------------------------------------------- lodash
\* Math.ceil in place of Math.floor.
baseRandomCeil(lower, upper, k) ==
    lower + (((k * (upper - lower + 1)) + RandRes - 1) \div RandRes)

\* The range taken as upper - lower, the upper bound left out.
baseRandomExclusive(lower, upper, k) ==
    lower + ((k * (upper - lower)) \div RandRes)

\* baseRandom(lower, upper): lower + floor(Math.random() * (upper - lower + 1)),
\* Math.random() being k/RandRes.
baseRandom(lower, upper, k) == lower + ((k * (upper - lower + 1)) \div RandRes)

\* _.random(lower, upper) for integer bounds: the bounds are swapped when
\* lower > upper, then baseRandom.
random(lower, upper, k) ==
    IF lower > upper THEN baseRandom(upper, lower, k)
    ELSE baseRandom(lower, upper, k)

\* ------------------------------------------------------------ handler
\* A response with another status code.
MakeResponseStatus500(n) ==
    [statusCode |-> 500, body |-> JSONstringify(TemplateLiteral(n))]

\* A response with a third attribute.
MakeResponseWithHeaders(n) ==
    [statusCode |-> StatusOK,
     headers |-> "application/json",
     body |-> JSONstringify(TemplateLiteral(n))]

\* index.js:6-9, the response record.
MakeResponse(n) ==
    [statusCode |-> StatusOK, body |-> JSONstringify(TemplateLiteral(n))]

\* A handler that reads a property of the event: a TypeError, and so a
\* rejected promise, when the event is missing.
handlerReadsEvent(ev, k, scope) ==
    LET n == random(0, maxValue, k)
    IN  [randomNumber |-> n,
         promise |-> IF ev = "undefined"
                     THEN [state |-> "rejected", reason |-> "TypeError"]
                     ELSE [state |-> "fulfilled", value |-> MakeResponse(n)],
         scope |-> scope]

\* A handler whose response tells whether the event was empty.
handlerEchoesEvent(ev, k, scope) ==
    LET n == random(0, maxValue, k)
    IN  [randomNumber |-> n,
         promise |-> [state |-> "fulfilled",
                      value |-> [statusCode |-> IF ev = "{}" THEN 204 ELSE StatusOK,
                                 body |-> JSONstringify(TemplateLiteral(n))]],
         scope |-> scope]

\* A handler that keeps the last number in a module-level variable.
handlerCachesNumber(ev, k, scope) ==
    LET n == random(0, maxValue, k)
    IN  [randomNumber |-> n,
         promise |-> [state |-> "fulfilled", value |-> MakeResponse(n)],
         scope |-> [lodash |-> scope.lodash, handler |-> scope.handler,
                    lastNumber |-> n]]

\* index.js:3-11, one call of the async handler with Math.random() = k/RandRes
\* in module scope `scope`: the local randomNumber, the promise the call
\* returns (no await in the body: it is settled when the call returns) and
\* the module scope after the call.
handler(ev, k, scope) ==
    LET n == random(0, maxValue, k)
    IN  [randomNumber |-> n,
         promise |-> [state |-> "fulfilled", value |-> MakeResponse(n)],
         scope |-> scope]

\* ----------------------------------------------------------- workflow
\* deploy.yml:3-6   on: push: branches: [main]
OnPushBranches == {"main"}
Branches == {"main", "dev"}

\* deploy.yml:10   runs-on
RunsOn == "w"

\* The labels of the runners GitHub hosts.
HostedLabels == {"ubuntu-latest", "ubuntu-22.04", "windows-latest", "macos-latest"}
\* The labels a repository may give a self-hosted runner of its own.
SelfHostedLabels == {"w"}

\* deploy.yml:12-44, the steps of the deploy job in order; env names the
\* secrets a step receives.
Steps ==
    << [name |-> "Checkout code", env |-> {}],
       [name |-> "Set up Node.js", env |-> {}],
       [name |-> "Install dependencies", env |-> {}],
       [name |-> "List installed packages", env |-> {}],
       [name |-> "Print npm version", env |-> {}],
       [name |-> "Zip Lambda function", env |-> {}],
       [name |-> "Install AWS CLI", env |-> {}],
       [name |-> "Deploy to AWS Lambda",
        env |-> {"AWS_ACCESS_KEY_ID", "AWS_SECRET_ACCESS_KEY"}] >>

NoRun == [status |-> "none", log |-> <<>>]

\* A job is given to a runner whose labels include the job's runs-on label.
RunnerAvailable(label) == label \in (HostedLabels \cup runners)

\* --------------------------------------------------------------- Init
Init ==
    /\ pc = [i \in Invocations |-> "idle"]
    /\ event = [i \in Invocations |-> NoEvent]
    /\ sample = [i \in Invocations |-> NoNumber]
    /\ randomNumber = [i \in Invocations |-> NoNumber]
    /\ promise = [i \in Invocations |-> NoPromise]
    /\ moduleScope = [lodash |-> "required", handler |-> "exported"]
    /\ pushed = [c \in Commits |-> "none"]
    /\ run = [c \in Commits |-> NoRun]
    /\ runners = {}
    /\ lambdaCode = 0

\* ---------------------------------------------------- handler actions
\* The runtime receives an event for invocation i.
Invoke(i, ev) ==
    /\ pc[i] = "idle"
    /\ pc' = [pc EXCEPT ![i] = "called"]
    /\ event' = [event EXCEPT ![i] = ev]
    /\ UNCHANGED <<sample, randomNumber, promise, moduleScope, deployVars>>

\* An execution environment serves one event at a time: the next event is
\* taken when no invocation is in progress.
InvokeNext(i, ev) ==
    /\ \A j \in Invocations : pc[j] = "idle"
    /\ Invoke(i, ev)

\* The runtime calls handler(event): the body runs to its return.
RunHandler(i) ==
    /\ pc[i] = "called"
    /\ \E k \in Samples :
         LET r == handler(event[i], k, moduleScope)
         IN  /\ sample' = [sample EXCEPT ![i] = k]
             /\ randomNumber' = [randomNumber EXCEPT ![i] = r.randomNumber]
             /\ promise' = [promise EXCEPT ![i] = r.promise]
             /\ moduleScope' = r.scope
    /\ pc' = [pc EXCEPT ![i] = "settled"]
    /\ UNCHANGED <<event, deployVars>>

\* The runtime takes the settled promise's value, answers the caller and
\* discards the invocation.
Respond(i) ==
    /\ pc[i] = "settled"
    /\ pc' = [pc EXCEPT ![i] = "idle"]
    /\ event' = [event EXCEPT ![i] = NoEvent]
    /\ sample' = [sample EXCEPT ![i] = NoNumber]
    /\ randomNumber' = [randomNumber EXCEPT ![i] = NoNumber]
    /\ promise' = [promise EXCEPT ![i] = NoPromise]
    /\ UNCHANGED <<moduleScope, deployVars>>

\* --------------------------------------------------- workflow actions
\* Commit c is pushed to branch b; a push to a branch of on.push.branches
\* queues a run of the workflow.
Push(c, b) ==
    /\ pushed[c] = "none"
    /\ \A d \in Commits : d < c => pushed[d] # "none"
    /\ pushed' = [pushed EXCEPT ![c] = b]
    /\ run' = [run EXCEPT ![c] =
                 IF b \in OnPushBranches THEN [status |-> "queued", log |-> <<>>]
                 ELSE NoRun]
    /\ UNCHANGED <<handlerVars, runners, lambdaCode>>

\* The repository registers a self-hosted runner labelled l.
RegisterRunner(l) ==
    /\ l \notin runners
    /\ runners' = runners \cup {l}
    /\ UNCHANGED <<handlerVars, pushed, run, lambdaCode>>

\* A runner with the runs-on label takes the queued deploy job.
StartJob(c) ==
    /\ run[c].status = "queued"
    /\ RunnerAvailable(RunsOn)
    /\ run' = [run EXCEPT ![c].status = "in_progress"]
    /\ UNCHANGED <<handlerVars, pushed, runners, lambdaCode>>

\* The runner executes the next step of the job; the last step, the
\* update-function-code command, replaces the function's code by the archive
\* of the commit checked out.
RunStep(c) ==
    /\ run[c].status = "in_progress"
    /\ LET k == Len(run[c].log) + 1
       IN  /\ k <= Len(Steps)
           /\ run' = [run EXCEPT ![c] =
                        [status |-> IF k = Len(Steps) THEN "success"
                                    ELSE "in_progress",
                         log |-> Append(run[c].log, Steps[k].name)]]
           /\ lambdaCode' = IF k = Len(Steps) THEN c ELSE lambdaCode
    /\ UNCHANGED <<handlerVars, pushed, runners>>

\* ----------------------------------------------------- specifications
\* One execution environment: invocations one after another.
Next ==
    \/ \E i \in Invocations, ev \in Events : InvokeNext(i, ev)
    \/ \E i \in Invocations : RunHandler(i)
    \/ \E i \in Invocations : Respond(i)

Spec == Init /\ [][Next]_vars

\* Invocations in flight at once, in any interleaving.
ConcNext ==
    \/ \E i \in Invocations, ev \in Events : Invoke(i, ev)
    \/ \E i \in Invocations : RunHandler(i)
    \/ \E i \in Invocations : Respond(i)

ConcSpec == Init /\ [][ConcNext]_vars

\* The deployment workflow.  GitHub runs a queued job as soon as a runner
\* is available and a runner runs the steps of its job one after another;
\* pushes and runner registrations are up to the repository's owner.
DeployNext ==
    \/ \E c \in Commits, b \in Branches : Push(c, b)
    \/ \E l \in SelfHostedLabels : RegisterRunner(l)
    \/ \E c \in Commits : StartJob(c)
    \/ \E c \in Commits : RunStep(c)

DeploySpec ==
    /\ Init
    /\ [][DeployNext]_vars
    /\ \A c \in Commits : WF_vars(StartJob(c)) /\ WF_vars(RunStep(c))


\* ------------------------------------------------- reading a response
\* JSON.parse of a JSON string: the characters between the two quotes with
\* the escapes undone; "<SyntaxError>" marks a text that is no JSON string.
RECURSIVE Unescape(_)
Unescape(s) ==
    IF s = <<>> THEN <<>>
    ELSE IF Head(s) = "\"" THEN <<"<SyntaxError>">>
    ELSE IF Head(s) = "\\"
         THEN IF Len(s) < 2 THEN <<"<SyntaxError>">>
              ELSE <<s[2]>> \o Unescape(SubSeq(s, 3, Len(s)))
    ELSE <<Head(s)>> \o Unescape(Tail(s))

JSONparseString(b) ==
    IF Len(b) < 2 \/ b[1] # "\"" \/ b[Len(b)] # "\"" THEN <<"<SyntaxError>">>
    ELSE Unescape(SubSeq(b, 2, Len(b) - 1))

IsJSONString(b) == \A p \in 1..Len(JSONparseString(b)) :
                       JSONparseString(b)[p] # "<SyntaxError>"

\* The text the specification gives before the number.
SpecPrefix ==
    <<"R", "a", "n", "d", "o", "m", " ", "n", "u", "m", "b", "e", "r", ":", " ">>

DigitValue(ch) == CHOOSE d \in 0..9 : DigitChars[d + 1] = ch
IsDigit(ch) == \E d \in 0..9 : DigitChars[d + 1] = ch

\* A decimal numeral: digits only, no leading zero but in "0" itself.
IsDecimal(ds) ==
    /\ Len(ds) >= 1
    /\ \A p \in 1..Len(ds) : IsDigit(ds[p])
    /\ (Len(ds) > 1 => ds[1] # "0")

RECURSIVE DecimalValue(_)
DecimalValue(ds) ==
    IF ds = <<>> THEN 0
    ELSE (10 * DecimalValue(SubSeq(ds, 1, Len(ds) - 1))) + DigitValue(ds[Len(ds)])

\* What follows the prefix in the decoded body.
NumberText(b) ==
    LET t == JSONparseString(b)
    IN  SubSeq(t, Len(SpecPrefix) + 1, Len(t))

HasPrefix(b) ==
    LET t == JSONparseString(b)
    IN  /\ Len(t) >= Len(SpecPrefix)
        /\ SubSeq(t, 1, Len(SpecPrefix)) = SpecPrefix

\* The number embedded in a body.
EmbeddedNumber(b) == DecimalValue(NumberText(b))

\* The body that embeds n.
BodyEmbedding(n) == <<"\"">> \o SpecPrefix \o NumberToString(n) \o <<"\"">>

Settled(i) == pc[i] = "settled"
Fulfilled(i) == Settled(i) /\ promise[i].state = "fulfilled"
InvState(i) == <<pc[i], event[i], sample[i], randomNumber[i], promise[i]>>

\* ------------------------------------------------------------- claims
\* C1: every response the handler returns, for any event and any number
\* drawn, has statusCode 200.
C1_StatusCodeIs200 ==
    \A i \in Invocations :
        Settled(i) => promise[i].state = "fulfilled"
                      /\ promise[i].value.statusCode = 200

C1_Witness ==
    \E i \in Invocations :
        Fulfilled(i) /\ event[i] = "{}" /\ promise[i].value.statusCode = 200

\* C2: the number embedded in the response body is an integer N with
\* 0 <= N <= 100.
C2_NumberInRange ==
    \A i \in Invocations :
        Fulfilled(i) =>
            LET b == promise[i].value.body
            IN  /\ IsJSONString(b)
                /\ HasPrefix(b)
                /\ IsDecimal(NumberText(b))
                /\ 0 <= EmbeddedNumber(b)
                /\ EmbeddedNumber(b) <= 100

C2_Witness ==
    \E i \in Invocations :
        Fulfilled(i) /\ sample[i] = RandRes - 1
        /\ EmbeddedNumber(promise[i].value.body) = 100

\* C3: the body is a JSON-quoted string and nothing else: a quote, the text
\* "Random number: " followed by the decimal form of the number drawn, and a
\* quote; decoding it yields exactly that text.
C3_BodyIsQuotedMessage ==
    \A i \in Invocations :
        Fulfilled(i) =>
            LET b == promise[i].value.body
            IN  /\ IsJSONString(b)
                /\ HasPrefix(b)
                /\ IsDecimal(NumberText(b))
                /\ DecimalValue(NumberText(b)) = randomNumber[i]
                /\ b = <<"\"">> \o SpecPrefix \o NumberText(b) \o <<"\"">>

C3_Witness ==
    \E i \in Invocations :
        Fulfilled(i) /\ randomNumber[i] = 37
        /\ promise[i].value.body =
             <<"\"">> \o SpecPrefix \o <<"3", "7">> \o <<"\"">>

\* C4: in every invocation of any sequence of invocations, with the same
\* or different events, the response has exactly the attributes statusCode
\* and body.
C4_ExactlyTwoAttributes ==
    \A i \in Invocations :
        Fulfilled(i) => DOMAIN promise[i].value = {"statusCode", "body"}

C4_Witness ==
    \E i \in Invocations :
        Fulfilled(i) /\ event[i] = "{\"key\":\"value\"}"
        /\ DOMAIN promise[i].value = {"statusCode", "body"}

\* C5: every invocation, whatever the event (an empty record and a missing
\* event included), completes with a response: the call of the handler can
\* always be made, the promise it returns is already fulfilled, never
\* pending and never rejected.
C5_AlwaysFulfilled ==
    \A i \in Invocations :
        /\ pc[i] \in {"idle", "called", "settled"}
        /\ promise[i].state \in {"none", "fulfilled"}
        /\ (Settled(i) <=> promise[i].state = "fulfilled")
        /\ (pc[i] = "called" => ENABLED RunHandler(i))

C5_Witness ==
    \E i \in Invocations :
        Fulfilled(i) /\ event[i] = "undefined"

\* C6: the event is unused: with the same random draw the handler returns
\* the same response for every event.
C6_EventUnused ==
    \A i \in Invocations :
        Settled(i) =>
            \A e \in Events :
                handler(e, sample[i], moduleScope).promise = promise[i]

C6_Witness ==
    \E i \in Invocations :
        /\ Fulfilled(i) /\ event[i] = "{}"
        /\ handler("undefined", sample[i], moduleScope).promise = promise[i]

\* C7: invocations in flight together are independent: a step of one
\* invocation changes no other invocation and never the module scope, and
\* two invocations with the same draw hold the same result whatever the
\* others did.
C7_Independent ==
    [][ /\ moduleScope' = moduleScope
        /\ \A i, j \in Invocations :
               (i # j /\ InvState(i)' # InvState(i)) => InvState(j)' = InvState(j)
        /\ \A i, j \in Invocations :
               (pc'[i] = "settled" /\ pc'[j] = "settled" /\ sample'[i] = sample'[j])
                   => promise'[i] = promise'[j] ]_vars

C7_Witness ==
    \E i, j \in Invocations :
        /\ i # j /\ Fulfilled(i) /\ Fulfilled(j)
        /\ event[i] # event[j] /\ sample[i] = sample[j]

\* C8: every push to main is eventually deployed: the run it queues
\* executes the steps of the deploy job to the end.
C8_PushToMainIsDeployed ==
    \A c \in Commits :
        (pushed[c] = "main") ~> (run[c].status = "success")

\* C10: no value is excluded: whenever the handler is about to run, each of
\* the 101 integers 0..100 is a number the response may embed.
C10_EveryValuePossible ==
    \A i \in Invocations :
        pc[i] = "called" =>
            \A n \in 0..100 :
                /\ EmbeddedNumber(BodyEmbedding(n)) = n
                /\ ENABLED (RunHandler(i)
                            /\ promise'[i].value.body = BodyEmbedding(n))

C10_Witness ==
    \E i \in Invocations :
        Fulfilled(i) /\ EmbeddedNumber(promise[i].value.body) = 0
        /\ sample[i] = 0

====
